---- MODULE Spec2Model ----
(***************************************************************************)
(* Barber Manager: the appointment scheduling and conflict-detection core. *)
(* Time is counted in minutes; a datetime is the number of minutes since   *)
(* 00:00 of day 0, a date is a day number.                                 *)
(***************************************************************************)
EXTENDS Integers, Sequences, FiniteSets, TLC

VARIABLES appointments, services, clients, barbers, users, now, settings, ret, sess, wlock

vars == <<appointments, services, clients, barbers, users, now, settings, ret, sess, wlock>>

----------------------------------------------------------------------------
(* Bounds of the model *)

MaxAppointments == 2
NumBarbers == 2
NumStartTimes == 2
HourSpan == 1
NumBookedServices == 2
NumSessions == 2

(* Program constants *)

DEFAULT_START_HOUR == 12
DEFAULT_END_HOUR == 20
SLOT_INTERVAL_MINUTES == 15
MaxHour == 23
MinutesPerHour == 60
MinutesPerDay == 24 * MinutesPerHour

\* None as a string value, and as an id (an id of 0 is falsy like None)
None == "None"
NoId == 0

----------------------------------------------------------------------------
(* str(int) and int(str): a string is a sequence of characters *)

Digits == <<"0", "1", "2", "3", "4", "5", "6", "7", "8", "9">>

RECURSIVE str(_)
str(n) == IF n < 10 THEN <<Digits[n + 1]>>
          ELSE str(n \div 10) \o <<Digits[(n % 10) + 1]>>

DigitValue(c) == (CHOOSE i \in 1..10 : Digits[i] = c) - 1

RECURSIVE int(_)
int(s) == IF Len(s) = 1 THEN DigitValue(s[1])
          ELSE 10 * int(SubSeq(s, 1, Len(s) - 1)) + DigitValue(s[Len(s)])

UpperCase == <<"A", "B", "C", "D", "E", "F", "G", "H", "I", "J", "K", "L", "M",
               "N", "O", "P", "Q", "R", "S", "T", "U", "V", "W", "X", "Y", "Z">>
LowerCase == <<"a", "b", "c", "d", "e", "f", "g", "h", "i", "j", "k", "l", "m",
               "n", "o", "p", "q", "r", "s", "t", "u", "v", "w", "x", "y", "z">>

\* the character of the other case, or the character itself
Recase(c, from, to) ==
    IF \E k \in DOMAIN from : from[k] = c
    THEN to[CHOOSE k \in DOMAIN from : from[k] = c] ELSE c

\* str.lower() and str.upper()
lower(s) == [i \in 1..Len(s) |-> Recase(s[i], UpperCase, LowerCase)]
upper(s) == [i \in 1..Len(s) |-> Recase(s[i], LowerCase, UpperCase)]

\* str.strip(): leading and trailing blanks removed
RECURSIVE strip(_)
strip(s) == IF s = <<>> THEN s
            ELSE IF Head(s) = " " THEN strip(Tail(s))
            ELSE IF s[Len(s)] = " " THEN strip(SubSeq(s, 1, Len(s) - 1))
            ELSE s

StrTrue == <<"t", "r", "u", "e">>
StrFalse == <<"f", "a", "l", "s", "e">>

----------------------------------------------------------------------------
(* Settings provider *)

\* the DEFAULT_SETTINGS dictionary
DEFAULT_SETTINGS ==
    [k \in {"business_hours_start", "business_hours_end", "slot_duration"} |->
        CASE k = "business_hours_start" -> <<"1", "2">>
          [] k = "business_hours_end" -> <<"2", "0">>
          [] OTHER -> <<"1", "5">>]

\* the settings table (key -> value of the stored rows) after set_setting(key, value)
SetSetting(st, key, value) ==
    [k \in DOMAIN st \cup {key} |-> IF k = key THEN value ELSE st[k]]

\* get_setting(key, default)
get_setting(st, key, default) ==
    IF key \in DOMAIN st THEN st[key]
    ELSE IF key \in DOMAIN DEFAULT_SETTINGS THEN DEFAULT_SETTINGS[key] ELSE default

\* get_business_hours() -> <<start_hour, end_hour>>
get_business_hours(st) ==
    <<int(get_setting(st, "business_hours_start", None)),
      int(get_setting(st, "business_hours_end", None))>>

_is_sync_enabled(st) ==
    lower(get_setting(st, "google_calendar_enabled", StrFalse)) = StrTrue

----------------------------------------------------------------------------
(* Time-slot generator *)

\* range(lo, hi, step) as a sequence
RECURSIVE range(_, _, _)
range(lo, hi, step) == IF lo >= hi THEN <<>>
                       ELSE <<lo>> \o range(lo + step, hi, step)

\* the inner loop: one <<hour, minute>> pair per minute of the sequence
HourSlots(hour, minutes) == [i \in 1..Len(minutes) |-> <<hour, minutes[i]>>]

\* the outer loop over the hours
RECURSIVE SlotsOfHours(_, _)
SlotsOfHours(hours, minutes) ==
    IF hours = <<>> THEN <<>>
    ELSE HourSlots(Head(hours), minutes) \o SlotsOfHours(Tail(hours), minutes)

\* the generator looping up to and including the closing hour
get_all_time_slots_InclusiveEnd(st) ==
    LET bh == get_business_hours(st)
    IN  SlotsOfHours(range(bh[1], bh[2] + 1, 1),
                     range(0, MinutesPerHour, SLOT_INTERVAL_MINUTES))

\* get_all_time_slots(db)
get_all_time_slots(st) ==
    LET bh == get_business_hours(st)
    IN  SlotsOfHours(range(bh[1], bh[2], 1),
                     range(0, MinutesPerHour, SLOT_INTERVAL_MINUTES))

----------------------------------------------------------------------------
(* Data access: the appointments table is a set of rows *)

Barbers == 1..NumBarbers

Statuses == {"pending", "confirmed", "cancelled"}

\* datetime.combine(target_date, time(hour, minute))
combine(target_date, hour, minute) ==
    target_date * MinutesPerDay + hour * MinutesPerHour + minute

\* find_overlapping testing only whether a stored appointment starts inside the
\* window: an appointment that began earlier and is still running is missed
find_overlapping_StartInside(appts, start_time, end_time, barber_id, exclude_id) ==
    {a \in appts :
        /\ a.status # "cancelled"
        /\ a.barber_id = barber_id
        /\ a.start_time < end_time
        /\ a.start_time >= start_time
        /\ (exclude_id # NoId => a.id # exclude_id)}

\* find_overlapping without the barber filter
find_overlapping_AnyBarber(appts, start_time, end_time, barber_id, exclude_id) ==
    {a \in appts :
        /\ a.status # "cancelled"
        /\ a.start_time < end_time
        /\ a.end_time > start_time
        /\ (exclude_id # NoId => a.id # exclude_id)}

\* find_overlapping with inclusive comparisons: touching windows conflict
find_overlapping_Inclusive(appts, start_time, end_time, barber_id, exclude_id) ==
    {a \in appts :
        /\ a.status # "cancelled"
        /\ a.barber_id = barber_id
        /\ a.start_time <= end_time
        /\ a.end_time >= start_time
        /\ (exclude_id # NoId => a.id # exclude_id)}

\* find_overlapping without the exclusion of exclude_id
find_overlapping_NoExclude(appts, start_time, end_time, barber_id, exclude_id) ==
    {a \in appts :
        /\ a.status # "cancelled"
        /\ a.barber_id = barber_id
        /\ a.start_time < end_time
        /\ a.end_time > start_time}

\* find_overlapping without the status filter
find_overlapping_WithCancelled(appts, start_time, end_time, barber_id, exclude_id) ==
    {a \in appts :
        /\ a.barber_id = barber_id
        /\ a.start_time < end_time
        /\ a.end_time > start_time
        /\ (exclude_id # NoId => a.id # exclude_id)}

\* find_overlapping(db, start_time, end_time, barber_id, exclude_id)
find_overlapping(appts, start_time, end_time, barber_id, exclude_id) ==
    {a \in appts :
        /\ a.status # "cancelled"
        /\ a.barber_id = barber_id
        /\ a.start_time < end_time
        /\ a.end_time > start_time
        /\ (exclude_id # NoId => a.id # exclude_id)}

\* get_appointments_by_date(db, target_date, barber_id): the rows the query
\* selects (the availability engine does not depend on their order)
get_appointments_by_date(appts, target_date, barber_id) ==
    {a \in appts :
        /\ a.start_time >= combine(target_date, 0, 0)
        /\ a.start_time <= combine(target_date, 23, 59)
        /\ a.status # "cancelled"
        /\ (barber_id # NoId => a.barber_id = barber_id)}

\* check_slot_availability(db, start_time, end_time, barber_id, exclude_id)
check_slot_availability(appts, start_time, end_time, barber_id, exclude_id) ==
    Cardinality(find_overlapping(appts, start_time, end_time, barber_id, exclude_id)) = 0

\* the slot test without the closing-time check
SlotIsAvailable_NoClosing(existing, target_date, end_hour, hour, minute, service_duration) ==
    LET slot_start == combine(target_date, hour, minute)
        slot_end == slot_start + service_duration
    IN  ~ \E appt \in existing :
            appt.start_time < slot_end /\ appt.end_time > slot_start

\* the test of one slot inside the loop of get_available_slots
SlotIsAvailable(existing, target_date, end_hour, hour, minute, service_duration) ==
    LET slot_start == combine(target_date, hour, minute)
        slot_end == slot_start + service_duration
        business_end == combine(target_date, end_hour, 0)
    IN  IF slot_end > business_end THEN FALSE
        ELSE ~ \E appt \in existing :
                 appt.start_time < slot_end /\ appt.end_time > slot_start

\* get_available_slots(db, target_date, service_duration, barber_id)
get_available_slots(appts, st, target_date, service_duration, barber_id) ==
    LET existing == get_appointments_by_date(appts, target_date, barber_id)
        all_slots == get_all_time_slots(st)
        end_hour == get_business_hours(st)[2]
    IN  [i \in 1..Len(all_slots) |->
           <<all_slots[i][1], all_slots[i][2],
             SlotIsAvailable(existing, target_date, end_hour,
                             all_slots[i][1], all_slots[i][2], service_duration)>>]

\* the lists query.order_by(Appointment.start_time).all() can return for these
\* rows: every arrangement in non-decreasing start_time (rows that start
\* together come in any order)
OrderedByStart(rows) ==
    {q \in [1..Cardinality(rows) -> rows] :
        /\ \A i \in DOMAIN q : \A j \in DOMAIN q : (i # j) => (q[i] # q[j])
        /\ \A i \in DOMAIN q : \A j \in DOMAIN q :
              (i < j) => (q[i].start_time <= q[j].start_time)}

\* the occupancy test that never finds a slot inside an appointment
IsOccupied_Never(appts_list, slot_time) == FALSE

\* the loop that tells whether slot_time lies inside an appointment of the list
IsOccupied(appts_list, slot_time) ==
    \E k \in DOMAIN appts_list :
        appts_list[k].start_time <= slot_time /\ slot_time < appts_list[k].end_time

\* the loop of get_daily_schedule from slot i on, appt_index pointing at the
\* next appointment of the list (the first one is 1)
RECURSIVE ScheduleFrom(_, _, _, _, _)
ScheduleFrom(appts_list, all_slots, target_date, i, appt_index) ==
    IF i > Len(all_slots) THEN <<>>
    ELSE LET slot_time == combine(target_date, all_slots[i][1], all_slots[i][2])
         IN  IF /\ appt_index <= Len(appts_list)
                /\ appts_list[appt_index].start_time = slot_time
             THEN <<[type |-> "appointment", time |-> slot_time,
                     id |-> appts_list[appt_index].id]>>
                  \o ScheduleFrom(appts_list, all_slots, target_date, i + 1,
                                  appt_index + 1)
             ELSE IF IsOccupied(appts_list, slot_time)
             THEN ScheduleFrom(appts_list, all_slots, target_date, i + 1, appt_index)
             ELSE <<[type |-> "free", time |-> slot_time, id |-> NoId]>>
                  \o ScheduleFrom(appts_list, all_slots, target_date, i + 1,
                                  appt_index)

\* get_daily_schedule(db, target_date, barber_id), given the list the query
\* of get_appointments_for_date returned
get_daily_schedule(appts_list, st, target_date) ==
    ScheduleFrom(appts_list, get_all_time_slots(st), target_date, 1, 1)

\* sum(a.service.price for a in rows)
RECURSIVE SumPrices(_, _)
SumPrices(rows, svcs) ==
    IF rows = {} THEN 0
    ELSE LET a == CHOOSE x \in rows : TRUE
             service == CHOOSE x \in svcs : x.id = a.service_id
         IN  service.price + SumPrices(rows \ {a}, svcs)

\* the rows whose start_time lies between 00:00 of start_date and the last
\* minute of end_date
InPeriod(appts, start_date, end_date) ==
    {a \in appts : /\ a.start_time >= combine(start_date, 0, 0)
                   /\ a.start_time <= combine(end_date, 23, 59)}

\* get_stats_by_period(db, start_date, end_date)
get_stats_by_period(appts, svcs, start_date, end_date) ==
    LET rows == {a \in InPeriod(appts, start_date, end_date) :
                    a.status # "cancelled"}
    IN  [total_count |-> Cardinality(rows),
         total_income |-> SumPrices(rows, svcs),
         appointments |-> rows]

\* get_stats_by_status(db, start_date, end_date)
get_stats_by_status(appts, svcs, start_date, end_date) ==
    LET rows == InPeriod(appts, start_date, end_date)
        confirmed == {a \in rows : a.status = "confirmed"}
        pending == {a \in rows : a.status = "pending"}
        cancelled == {a \in rows : a.status = "cancelled"}
    IN  [confirmed |-> [count |-> Cardinality(confirmed),
                        income |-> SumPrices(confirmed, svcs)],
         pending |-> [count |-> Cardinality(pending),
                      income |-> SumPrices(pending, svcs)],
         cancelled |-> [count |-> Cardinality(cancelled), income |-> 0],
         total |-> [count |-> Cardinality(rows),
                    income |-> SumPrices(confirmed, svcs)]]

\* get_barber_performance(db, start_date, end_date, status): one row per
\* barber of the barbers table with a joined appointment; status is a set,
\* empty for None
get_barber_performance(appts, svcs, brs, start_date, end_date, status) ==
    LET joined == {a \in InPeriod(appts, start_date, end_date) :
                      /\ \E b \in brs : b.id = a.barber_id
                      /\ \E x \in svcs : x.id = a.service_id
                      /\ IF status # {} THEN a.status \in status
                         ELSE a.status # "cancelled"}
    IN  {[name |-> b.name,
          count |-> Cardinality({a \in joined : a.barber_id = b.id}),
          income |-> SumPrices({a \in joined : a.barber_id = b.id}, svcs)] :
            b \in {x \in brs : \E a \in joined : a.barber_id = x.id}}

\* the id SQLite gives the next inserted row: the largest rowid plus one
RECURSIVE MaxId(_)
MaxId(appts) ==
    IF appts = {} THEN 0
    ELSE LET a == CHOOSE x \in appts : TRUE
             m == MaxId(appts \ {a})
         IN  IF a.id > m THEN a.id ELSE m

NewId(appts) == MaxId(appts) + 1

\* db.query(Appointment).filter(Appointment.id == id).first(): the row, if any
AppointmentById(appts, id) == {a \in appts : a.id = id}

----------------------------------------------------------------------------
(* Inputs of the model *)

\* the day the appointments are booked on
Today == CHOOSE d \in {0} : TRUE

\* opening hours the settings screen stores
Hours == (DEFAULT_START_HOUR - HourSpan)..DEFAULT_START_HOUR

\* start times asked for: the slots after 11:00, the hour before the default opening
StartTimes == {combine(Today, DEFAULT_START_HOUR - 1, 0) + SLOT_INTERVAL_MINUTES * k :
                 k \in 1..NumStartTimes}

\* the seed services of _seed_services: Corte, Barba, Combo Corte+Barba
SeedServices == {[id |-> 1, duration |-> 30, price |-> 0],
                 [id |-> 2, duration |-> 15, price |-> 0],
                 [id |-> 3, duration |-> 40, price |-> 0]}

ServiceIds == {s.id : s \in SeedServices} \cup {4}
ClientIds == {1, 2}
AppointmentIds == 1..(MaxAppointments + 1)
StatusInputs == Statuses \cup {"done"}
QueryDurations == {30, 60, 75}

\* the services booked where the availability queries are explored
BookedServices == {s \in SeedServices : s.id <= NumBookedServices}

\* the ids of the rows of a table
IdsOf(rows) == {r.id : r \in rows}

\* the client registered before the first booking
FirstClient == [id |-> 1, name |-> <<"A", "l">>,
                email |-> <<"a", "@", "x", ".", "i", "o">>]

\* the default barber of _seed_auth
SeedBarbers ==
    {[id |-> 1,
      name |-> <<"B", "a", "r", "b", "e", "r", "o", " ",
                 "P", "r", "i", "n", "c", "i", "p", "a", "l">>,
      color |-> <<"#", "7", "E", "5", "7", "C", "2">>,
      is_active |-> TRUE]}

\* bcrypt.hashpw: the hash is not the password, and checkpw accepts exactly
\* the password it was computed from
hash_password(password) == <<"bcrypt", password>>

verify_password(password, hashed_password) ==
    hashed_password = hash_password(password)

\* the ADMIN_PASSWORD of the environment
AdminPassword == "admin-password"

\* the admin user of _seed_auth, as create_user builds it
SeedUsers ==
    {[username |-> "admin",
      password_hash |-> hash_password(AdminPassword),
      is_active |-> TRUE,
      failed_attempts |-> 0,
      locked_until |-> {}]}

NoSessions == [i \in {} |-> None]

\* what a call left behind: the returned value and error message, the outcome
\* of the remote calendar call it made (NoRemote when it made none) and the
\* exception it raised instead of returning (None when it returned)
NoRemote == "none"

Result(op, args, val, err) ==
    [op |-> op, args |-> args, val |-> val, err |-> err,
     remote |-> NoRemote, exc |-> None]

Init ==
    /\ appointments = {}
    /\ services = SeedServices
    /\ clients = {FirstClient}
    /\ barbers = SeedBarbers
    /\ users = SeedUsers
    /\ now = 0
    /\ settings = [k \in {} |-> None]
    /\ ret = Result("init", <<>>, {}, None)
    /\ sess = NoSessions
    /\ wlock = 0

----------------------------------------------------------------------------
(* The calendar client.  What a remote call meets is the environment's     *)
(* choice: the call succeeds, the API answers with an HTTP error, the      *)
(* event is already gone remotely (404 / 410), or the client holds no      *)
(* valid credentials (is_authenticated() is false and self.service is None) *)

RemoteOutcomes == {"ok", "http_error", "gone", "unauthenticated"}

\* the outcomes a call can meet: none when sync is off and no call is made
OutcomesIf(called) == IF called THEN RemoteOutcomes ELSE {NoRemote}

\* create_event(calendar_id, event_data): the id of the created event, or None
create_event(outcome, event_id) == IF outcome = "ok" THEN event_id ELSE NoId

\* update_event(calendar_id, event_id, event_data): True if successful
update_event(outcome) == outcome = "ok"

\* delete_event(calendar_id, event_id) raises when self.service is None:
\* only HttpError is caught around self.service.events()
delete_event_raises(outcome) == outcome = "unauthenticated"

\* delete_event(calendar_id, event_id) when it returns
delete_event(outcome) == outcome \in {"ok", "gone"}

ExcAttributeError == "AttributeError"

----------------------------------------------------------------------------
(* Appointment lifecycle: each operation runs to completion inside one     *)
(* get_db() scope, which commits when the operation returns                *)

ErrNoService == "Servicio no encontrado"
ErrNoClient == "Cliente no encontrado"
ErrUnavailable == "El horario seleccionado no esta disponible para este barbero"
ErrBadStatus == "Estado invalido"
ErrNoAppointment == "Turno no encontrado"

\* the row built with status confirmed
NewAppointment_Confirmed(appts, client_id, service_id, barber_id, start_time, end_time) ==
    [id |-> NewId(appts), client_id |-> client_id, service_id |-> service_id,
     barber_id |-> barber_id, start_time |-> start_time, end_time |-> end_time,
     status |-> "confirmed", google_event_id |-> 0]

\* the row create_appointment builds, before the calendar sync
NewAppointment(appts, client_id, service_id, barber_id, start_time, end_time) ==
    [id |-> NewId(appts), client_id |-> client_id, service_id |-> service_id,
     barber_id |-> barber_id, start_time |-> start_time, end_time |-> end_time,
     status |-> "pending", google_event_id |-> 0]

\* create_appointment without the lookup of the client
create_appointment_NoClientCheck(client_id, service_id, barber_id, start_time, sync_to_google) ==
    LET args == <<client_id, service_id, barber_id, start_time>>
        found == {s \in services : s.id = service_id}
    IN
    /\ UNCHANGED <<services, clients, barbers, users, now, settings, sess, wlock>>
    /\ IF found = {}
       THEN /\ ret' = Result("create_appointment", args, {}, ErrNoService)
            /\ UNCHANGED appointments
       ELSE LET service == CHOOSE s \in found : TRUE
                end_time == start_time + service.duration
            IN  IF ~ check_slot_availability(appointments, start_time, end_time,
                                             barber_id, NoId)
                THEN /\ ret' = Result("create_appointment", args, {}, ErrUnavailable)
                     /\ UNCHANGED appointments
                ELSE /\ NewId(appointments) <= MaxAppointments
                     /\ LET appointment ==
                               NewAppointment(appointments, client_id, service_id,
                                              barber_id, start_time, end_time)
                        IN  /\ appointments' = appointments \cup {appointment}
                            /\ ret' = Result("create_appointment", args,
                                             {appointment}, None)

create_appointment(client_id, service_id, barber_id, start_time, sync_to_google) ==
    LET args == <<client_id, service_id, barber_id, start_time>>
        found == {s \in services : s.id = service_id}
    IN
    /\ UNCHANGED <<services, clients, barbers, users, now, settings, sess, wlock>>
    /\ IF found = {}
       THEN /\ ret' = Result("create_appointment", args, {}, ErrNoService)
            /\ UNCHANGED appointments
       ELSE IF client_id \notin IdsOf(clients)
       THEN /\ ret' = Result("create_appointment", args, {}, ErrNoClient)
            /\ UNCHANGED appointments
       ELSE LET service == CHOOSE s \in found : TRUE
                end_time == start_time + service.duration
            IN  IF ~ check_slot_availability(appointments, start_time, end_time,
                                             barber_id, NoId)
                THEN /\ ret' = Result("create_appointment", args, {}, ErrUnavailable)
                     /\ UNCHANGED appointments
                ELSE /\ NewId(appointments) <= MaxAppointments
                     /\ \E outcome \in
                            OutcomesIf(sync_to_google /\ _is_sync_enabled(settings)) :
                          LET google_event_id ==
                                IF outcome = NoRemote THEN NoId
                                ELSE create_event(outcome, NewId(appointments))
                              appointment ==
                                [NewAppointment(appointments, client_id, service_id,
                                                barber_id, start_time, end_time)
                                   EXCEPT !.google_event_id = google_event_id]
                          IN  /\ appointments' = appointments \cup {appointment}
                              /\ ret' = [Result("create_appointment", args,
                                                {appointment}, None)
                                           EXCEPT !.remote = outcome]

\* update_appointment_status without the validation of new_status
update_appointment_status_NoValidation(appointment_id, new_status) ==
    LET args == <<appointment_id, new_status>>
        found == AppointmentById(appointments, appointment_id)
    IN
    /\ UNCHANGED <<services, clients, barbers, users, now, settings, sess, wlock>>
    /\ IF found = {}
       THEN /\ ret' = Result("update_appointment_status", args, {}, ErrNoAppointment)
            /\ UNCHANGED appointments
       ELSE LET appointment == CHOOSE a \in found : TRUE
                updated == [appointment EXCEPT !.status = new_status]
            IN  /\ appointments' = (appointments \ {appointment}) \cup {updated}
                /\ ret' = Result("update_appointment_status", args, {updated}, None)

update_appointment_status(appointment_id, new_status) ==
    LET args == <<appointment_id, new_status>>
        found == AppointmentById(appointments, appointment_id)
    IN
    /\ UNCHANGED <<services, clients, barbers, users, now, settings, sess, wlock>>
    /\ IF new_status \notin Statuses
       THEN /\ ret' = Result("update_appointment_status", args, {}, ErrBadStatus)
            /\ UNCHANGED appointments
       ELSE IF found = {}
       THEN /\ ret' = Result("update_appointment_status", args, {}, ErrNoAppointment)
            /\ UNCHANGED appointments
       ELSE LET appointment == CHOOSE a \in found : TRUE
                updated == [appointment EXCEPT !.status = new_status]
            IN  /\ appointments' = (appointments \ {appointment}) \cup {updated}
                /\ \E outcome \in
                       OutcomesIf(/\ appointment.status # new_status
                                  /\ _is_sync_enabled(settings)
                                  /\ appointment.google_event_id # NoId) :
                     ret' = [Result("update_appointment_status", args,
                                    {updated}, None)
                               EXCEPT !.remote = outcome]

\* delete_appointment reporting success for an id that is not stored
delete_appointment_AlwaysTrue(appointment_id) ==
    /\ UNCHANGED <<services, clients, barbers, users, now, settings, sess, wlock>>
    /\ appointments' = appointments \ AppointmentById(appointments, appointment_id)
    /\ ret' = Result("delete_appointment", <<appointment_id>>, TRUE, None)

delete_appointment(appointment_id) ==
    LET found == AppointmentById(appointments, appointment_id)
    IN
    /\ UNCHANGED <<services, clients, barbers, users, now, settings, sess, wlock>>
    /\ IF found = {}
       THEN /\ ret' = Result("delete_appointment", <<appointment_id>>, FALSE,
                             ErrNoAppointment)
            /\ UNCHANGED appointments
       ELSE LET appointment == CHOOSE a \in found : TRUE
            IN  \E outcome \in
                      OutcomesIf(/\ appointment.google_event_id # NoId
                                 /\ _is_sync_enabled(settings)) :
                  IF outcome # NoRemote /\ delete_event_raises(outcome)
                  THEN \* the exception leaves delete_appointment and get_db
                       \* rolls the session back
                       /\ UNCHANGED appointments
                       /\ ret' = [Result("delete_appointment", <<appointment_id>>,
                                         FALSE, None)
                                    EXCEPT !.remote = outcome,
                                           !.exc = ExcAttributeError]
                  ELSE /\ appointments' = appointments \ found
                       /\ ret' = [Result("delete_appointment", <<appointment_id>>,
                                         TRUE, None)
                                    EXCEPT !.remote = outcome]

set_business_hours(start_hour, end_hour) ==
    /\ settings' = SetSetting(SetSetting(settings, "business_hours_start",
                                         str(start_hour)),
                              "business_hours_end", str(end_hour))
    /\ ret' = Result("set_business_hours", <<start_hour, end_hour>>, {}, None)
    /\ UNCHANGED <<appointments, services, clients, barbers, users, now, sess, wlock>>

\* a call of get_available_slots, its result kept in ret
GetAvailableSlots(target_date, service_duration, barber_id) ==
    /\ ret' = Result("get_available_slots",
                     <<target_date, service_duration, barber_id>>,
                     get_available_slots(appointments, settings, target_date,
                                         service_duration, barber_id), None)
    /\ UNCHANGED <<appointments, services, clients, barbers, users, now, settings, sess, wlock>>

\* a call of check_slot_availability, its result kept in ret
CheckSlotAvailability(start_time, end_time, barber_id, exclude_id) ==
    /\ ret' = Result("check_slot_availability",
                     <<start_time, end_time, barber_id, exclude_id>>,
                     check_slot_availability(appointments, start_time, end_time,
                                             barber_id, exclude_id), None)
    /\ UNCHANGED <<appointments, services, clients, barbers, users, now, settings, sess, wlock>>

\* the lifecycle operations, with every input the callers can pass
Next ==
    \/ \E c \in ClientIds, s \in ServiceIds, b \in Barbers, t \in StartTimes :
         create_appointment(c, s, b, t, TRUE)
    \/ \E id \in AppointmentIds, st \in StatusInputs :
         update_appointment_status(id, st)
    \/ \E id \in AppointmentIds : delete_appointment(id)

Spec == Init /\ [][Next]_vars

\* booking and availability: the lifecycle on stored clients, services and
\* appointments, the settings screen and the availability queries
NextAvail ==
    \/ \E s \in BookedServices, b \in Barbers, t \in StartTimes :
         create_appointment(1, s.id, b, t, TRUE)
    \/ \E a \in appointments, st \in Statuses :
         update_appointment_status(a.id, st)
    \/ \E a \in appointments : delete_appointment(a.id)
    \/ \E s \in Hours, e \in Hours : set_business_hours(s, e)
    \/ \E d \in QueryDurations, b \in Barbers : GetAvailableSlots(Today, d, b)
    \/ \E t \in StartTimes, s \in BookedServices, b \in Barbers :
         CheckSlotAvailability(t, t + s.duration, b, NoId)

SpecAvail == Init /\ [][NextAvail]_vars

\* the service catalogue
ErrBadDuration == "La duracion debe ser mayor a 0"

\* update_service(db, service_id, duration=duration, price=price); an
\* optional argument is a set, empty for None
update_service(service_id, duration, price) ==
    LET args == <<service_id, duration, price>>
        found == {s \in services : s.id = service_id}
    IN
    /\ UNCHANGED <<appointments, clients, barbers, users, now, settings, sess, wlock>>
    /\ IF found = {}
       THEN /\ ret' = Result("update_service", args, {}, ErrNoService)
            /\ UNCHANGED services
       ELSE IF \E d \in duration : d <= 0
       THEN /\ ret' = Result("update_service", args, {}, ErrBadDuration)
            /\ UNCHANGED services
       ELSE LET service == CHOOSE x \in found : TRUE
                timed == IF duration = {} THEN service
                         ELSE [service EXCEPT !.duration =
                                 CHOOSE d \in duration : TRUE]
                updated == IF price = {} THEN timed
                           ELSE [timed EXCEPT !.price = CHOOSE x \in price : TRUE]
            IN  /\ services' = (services \ {service}) \cup {updated}
                /\ ret' = Result("update_service", args, {updated}, None)

\* durations the services screen is given
DurationInputs == {0, 45}

\* booking while the catalogue changes
NextCatalogue ==
    \/ \E c \in ClientIds, s \in ServiceIds, b \in Barbers, t \in StartTimes :
         create_appointment(c, s, b, t, TRUE)
    \/ \E s \in ServiceIds \ {3}, d \in DurationInputs : update_service(s, {d}, {})
    \/ \E a \in appointments : delete_appointment(a.id)

SpecCatalogue == Init /\ [][NextCatalogue]_vars

\* a call of get_daily_schedule, its result kept in ret
GetDailySchedule(target_date, barber_id) ==
    /\ \E appts_list \in OrderedByStart(get_appointments_by_date(appointments,
                                                target_date, barber_id)) :
         ret' = Result("get_daily_schedule", <<target_date, barber_id>>,
                       get_daily_schedule(appts_list, settings, target_date), None)
    /\ UNCHANGED <<appointments, services, clients, barbers, users, now, settings, sess, wlock>>

\* the agenda: the lifecycle on stored rows, the settings screen and the
\* daily schedule of a barber
NextAgenda ==
    \/ \E s \in BookedServices, b \in Barbers, t \in StartTimes :
         create_appointment(1, s.id, b, t, TRUE)
    \/ \E a \in appointments, st \in Statuses :
         update_appointment_status(a.id, st)
    \/ \E a \in appointments : delete_appointment(a.id)
    \/ \E s \in Hours, e \in Hours : set_business_hours(s, e)
    \/ \E b \in Barbers : GetDailySchedule(Today, b)

SpecAgenda == Init /\ [][NextAgenda]_vars

\* cancelling: bookings, status changes, and every query that reads the
\* appointments of the day
NextCancel ==
    \/ \E s \in BookedServices, b \in Barbers, t \in StartTimes :
         create_appointment(1, s.id, b, t, TRUE)
    \/ \E a \in appointments, st \in Statuses :
         update_appointment_status(a.id, st)
    \/ \E e \in Hours : set_business_hours(DEFAULT_START_HOUR - HourSpan, e)
    \/ \E s \in BookedServices, b \in Barbers :
         GetAvailableSlots(Today, s.duration, b)
    \/ \E t \in StartTimes, s \in BookedServices, b \in Barbers :
         CheckSlotAvailability(t, t + s.duration, b, NoId)
    \/ \E b \in Barbers : GetDailySchedule(Today, b)

SpecCancel == Init /\ [][NextCancel]_vars

\* the agenda of the whole shop: the daily schedule of one barber or, with
\* barber_id left out, of all of them
NextShopAgenda ==
    \/ \E s \in BookedServices, b \in Barbers, t \in StartTimes :
         create_appointment(1, s.id, b, t, TRUE)
    \/ \E a \in appointments, st \in Statuses :
         update_appointment_status(a.id, st)
    \/ \E s \in Hours, e \in Hours : set_business_hours(s, e)
    \/ \E b \in Barbers \cup {NoId} : GetDailySchedule(Today, b)

SpecShopAgenda == Init /\ [][NextShopAgenda]_vars

----------------------------------------------------------------------------
(* Barber management.  An optional argument is a set: empty for None, the  *)
(* value alone when it is given                                            *)

ErrBarberName == "El nombre debe tener al menos 2 caracteres"
ErrBarberColor == "El color debe estar en formato #RRGGBB"
ErrBarberDuplicate == "Ya existe un barbero con el nombre"
ErrBarberOtherDuplicate == "Ya existe otro barbero con el nombre"
ErrNoBarber == "Barbero no encontrado"
ErrLastActive == "Debe haber al menos un barbero activo"
ErrFutureAppointments == "El barbero tiene cita(s) futura(s) asignada(s)"

\* the statuses can_deactivate counts as future appointments
DeactivationStatuses == {"pendiente", "confirmado"}

\* not color.startswith("#") or len(color) != 7
BadColor(color) == Len(color) = 0 \/ color[1] # "#" \/ Len(color) # 7

BarberById(brs, barber_id) == {b \in brs : b.id = barber_id}

\* the id of the next inserted barber
NewBarberId(brs) ==
    IF brs = {} THEN 1
    ELSE (CHOOSE m \in {b.id : b \in brs} : \A b \in brs : b.id <= m) + 1

\* can_deactivate without the count of the active barbers
can_deactivate_NoCount(brs, appts, barber_id, today) ==
    LET future_appointments ==
            Cardinality({a \in appts :
                            /\ a.barber_id = barber_id
                            /\ a.start_time \div MinutesPerDay >= today
                            /\ a.status \in DeactivationStatuses})
    IN  IF future_appointments > 0 THEN <<FALSE, ErrFutureAppointments>>
        ELSE <<TRUE, None>>

\* can_deactivate(db, barber_id) -> <<can_deactivate, error>>, today being
\* date.today()
can_deactivate(brs, appts, barber_id, today) ==
    LET active_count == Cardinality({b \in brs : b.is_active})
        future_appointments ==
            Cardinality({a \in appts :
                            /\ a.barber_id = barber_id
                            /\ a.start_time \div MinutesPerDay >= today
                            /\ a.status \in DeactivationStatuses})
    IN  IF active_count <= 1 THEN <<FALSE, ErrLastActive>>
        ELSE IF future_appointments > 0 THEN <<FALSE, ErrFutureAppointments>>
        ELSE <<TRUE, None>>

create_barber(name, color) ==
    /\ UNCHANGED <<appointments, services, clients, users, now, settings, sess, wlock>>
    /\ IF Len(name) = 0 \/ Len(strip(name)) < 2
       THEN /\ ret' = Result("create_barber", <<name, color>>, {}, ErrBarberName)
            /\ UNCHANGED barbers
       ELSE IF BadColor(color)
       THEN /\ ret' = Result("create_barber", <<name, color>>, {}, ErrBarberColor)
            /\ UNCHANGED barbers
       ELSE IF \E b \in barbers : lower(b.name) = lower(strip(name))
       THEN /\ ret' = Result("create_barber", <<name, color>>, {},
                             ErrBarberDuplicate)
            /\ UNCHANGED barbers
       ELSE LET barber == [id |-> NewBarberId(barbers), name |-> strip(name),
                           color |-> upper(color), is_active |-> TRUE]
            IN  /\ NewBarberId(barbers) <= NumBarbers
                /\ barbers' = barbers \cup {barber}
                /\ ret' = Result("create_barber", <<name, color>>, {barber}, None)

\* update_barber(db, barber_id, name, color): a name already assigned stays
\* assigned when the color is refused afterwards, and the commit of get_db
\* stores it
update_barber(barber_id, name, color) ==
    LET args == <<barber_id, name, color>>
        found == BarberById(barbers, barber_id)
    IN
    /\ UNCHANGED <<appointments, services, clients, users, now, settings, sess, wlock>>
    /\ IF found = {}
       THEN /\ ret' = Result("update_barber", args, {}, ErrNoBarber)
            /\ UNCHANGED barbers
       ELSE LET barber == CHOOSE b \in found : TRUE
            IN  IF \E n \in name : Len(strip(n)) < 2
                THEN /\ ret' = Result("update_barber", args, {}, ErrBarberName)
                     /\ UNCHANGED barbers
                ELSE IF \E n \in name : \E b \in barbers :
                           lower(b.name) = lower(strip(n)) /\ b.id # barber_id
                THEN /\ ret' = Result("update_barber", args, {},
                                      ErrBarberOtherDuplicate)
                     /\ UNCHANGED barbers
                ELSE LET named == IF name = {} THEN barber
                                  ELSE [barber EXCEPT !.name =
                                          strip(CHOOSE n \in name : TRUE)]
                     IN  IF \E c \in color : BadColor(c)
                         THEN /\ ret' = Result("update_barber", args, {},
                                               ErrBarberColor)
                              /\ barbers' = (barbers \ {barber}) \cup {named}
                         ELSE LET updated ==
                                    IF color = {} THEN named
                                    ELSE [named EXCEPT !.color =
                                            upper(CHOOSE c \in color : TRUE)]
                              IN  /\ barbers' = (barbers \ {barber}) \cup {updated}
                                  /\ ret' = Result("update_barber", args,
                                                   {updated}, None)

\* toggle_active(db, barber_id), today being date.today()
toggle_active(barber_id, today) ==
    LET args == <<barber_id, today>>
        found == BarberById(barbers, barber_id)
    IN
    /\ UNCHANGED <<appointments, services, clients, users, now, settings, sess, wlock>>
    /\ IF found = {}
       THEN /\ ret' = Result("toggle_active", args, {}, ErrNoBarber)
            /\ UNCHANGED barbers
       ELSE LET barber == CHOOSE b \in found : TRUE
                check == can_deactivate(barbers, appointments, barber_id, today)
            IN  IF barber.is_active /\ ~ check[1]
                THEN /\ ret' = Result("toggle_active", args, {}, check[2])
                     /\ UNCHANGED barbers
                ELSE LET updated == [barber EXCEPT !.is_active = ~ barber.is_active]
                     IN  /\ barbers' = (barbers \ {barber}) \cup {updated}
                         /\ ret' = Result("toggle_active", args, {updated}, None)

\* names and colors typed in the barbers screen
NameInputs == {<<"A", "l">>, <<"a", "l", " ">>, <<"B", " ">>}
ColorInputs == {<<"#", "2", "1", "9", "6", "f", "3">>, <<"r", "e", "d">>}
BarberIdInputs == 1..(NumBarbers + 1)
Optional(values) == {{}} \cup {{v} : v \in values}

\* the start time of the bookings: the first of the start times
BookingTimes == {t \in StartTimes : \A u \in StartTimes : t <= u}

\* the barbers screen, and the bookings of the barbers
NextBarbers ==
    \/ \E n \in NameInputs, c \in ColorInputs : create_barber(n, c)
    \/ \E id \in BarberIdInputs, n \in Optional(NameInputs),
          c \in Optional(ColorInputs) : update_barber(id, n, c)
    \/ \E id \in BarberIdInputs, today \in {Today, Today + 1} :
         toggle_active(id, today)
    \/ \E b \in Barbers, t \in BookingTimes : create_appointment(1, 1, b, t, TRUE)
    \/ \E a \in appointments, st \in Statuses :
         update_appointment_status(a.id, st)

SpecBarbers == Init /\ [][NextBarbers]_vars

----------------------------------------------------------------------------
(* Reports *)

\* a call of get_stats_by_period, its result kept in ret
GetStatsByPeriod(start_date, end_date) ==
    /\ ret' = Result("get_stats_by_period", <<start_date, end_date>>,
                     get_stats_by_period(appointments, services,
                                         start_date, end_date), None)
    /\ UNCHANGED <<appointments, services, clients, barbers, users, now, settings, sess, wlock>>

\* a call of get_stats_by_status, its result kept in ret
GetStatsByStatus(start_date, end_date) ==
    /\ ret' = Result("get_stats_by_status", <<start_date, end_date>>,
                     get_stats_by_status(appointments, services,
                                         start_date, end_date), None)
    /\ UNCHANGED <<appointments, services, clients, barbers, users, now, settings, sess, wlock>>

\* a call of get_barber_performance, its result kept in ret
GetBarberPerformance(start_date, end_date, status) ==
    /\ ret' = Result("get_barber_performance", <<start_date, end_date, status>>,
                     get_barber_performance(appointments, services, barbers,
                                            start_date, end_date, status), None)
    /\ UNCHANGED <<appointments, services, clients, barbers, users, now, settings, sess, wlock>>

\* prices the services screen is given
PriceInputs == {100}

\* the reports of the day over priced services and bookings of any status
NextReports ==
    \/ \E s \in BookedServices, b \in Barbers, t \in BookingTimes :
         create_appointment(1, s.id, b, t, TRUE)
    \/ \E a \in appointments, st \in Statuses :
         update_appointment_status(a.id, st)
    \/ \E s \in BookedServices, p \in PriceInputs : update_service(s.id, {}, {p})
    \/ GetStatsByPeriod(Today, Today)
    \/ GetStatsByStatus(Today, Today)
    \/ \E status \in Optional(Statuses) : GetBarberPerformance(Today, Today, status)

SpecReports == Init /\ [][NextReports]_vars

----------------------------------------------------------------------------
(* Deleting clients and services *)

ErrClientHasAppointments == "No se puede eliminar un cliente con turnos asociados"
ErrServiceHasAppointments == "No se puede eliminar un servicio con turnos asociados"

\* delete_client without the test of client.appointments: the cascade of the
\* relationship deletes the client's appointments with the client
delete_client_Unchecked(client_id) ==
    /\ UNCHANGED <<services, barbers, users, now, settings, sess, wlock>>
    /\ clients' = {c \in clients : c.id # client_id}
    /\ appointments' = {a \in appointments : a.client_id # client_id}
    /\ ret' = Result("delete_client", <<client_id>>, TRUE, None)

\* delete_client(db, client_id)
delete_client(client_id) ==
    LET found == {c \in clients : c.id = client_id}
    IN
    /\ UNCHANGED <<appointments, services, barbers, users, now, settings, sess, wlock>>
    /\ IF found = {}
       THEN /\ ret' = Result("delete_client", <<client_id>>, FALSE, ErrNoClient)
            /\ UNCHANGED clients
       ELSE IF \E a \in appointments : a.client_id = client_id
       THEN /\ ret' = Result("delete_client", <<client_id>>, FALSE,
                             ErrClientHasAppointments)
            /\ UNCHANGED clients
       ELSE /\ clients' = clients \ found
            /\ ret' = Result("delete_client", <<client_id>>, TRUE, None)

\* delete_service(db, service_id)
delete_service(service_id) ==
    LET found == {x \in services : x.id = service_id}
    IN
    /\ UNCHANGED <<appointments, clients, barbers, users, now, settings, sess, wlock>>
    /\ IF found = {}
       THEN /\ ret' = Result("delete_service", <<service_id>>, FALSE, ErrNoService)
            /\ UNCHANGED services
       ELSE IF \E a \in appointments : a.service_id = service_id
       THEN /\ ret' = Result("delete_service", <<service_id>>, FALSE,
                             ErrServiceHasAppointments)
            /\ UNCHANGED services
       ELSE /\ services' = services \ found
            /\ ret' = Result("delete_service", <<service_id>>, TRUE, None)

\* bookings of any status, and the deletion of appointments, clients and
\* services
NextIntegrity ==
    \/ \E c \in ClientIds, s \in ServiceIds, b \in Barbers, t \in BookingTimes :
         create_appointment(c, s, b, t, TRUE)
    \/ \E a \in appointments, st \in Statuses :
         update_appointment_status(a.id, st)
    \/ \E id \in AppointmentIds : delete_appointment(id)
    \/ \E c \in ClientIds : delete_client(c)
    \/ \E s \in ServiceIds : delete_service(s)

SpecIntegrity == Init /\ [][NextIntegrity]_vars

-----------------------------------------------------------------------------
(* Client management *)

CharIn(c, chars) == \E k \in DOMAIN chars : chars[k] = c
IsAlpha(c) == CharIn(c, UpperCase) \/ CharIn(c, LowerCase)
IsAlnum(c) == IsAlpha(c) \/ CharIn(c, Digits)

\* EMAIL_PATTERN.match: one "@"; before it a letter or digit followed by
\* letters, digits and ._%+-; after it labels separated by dots, each
\* beginning and ending with a letter or digit with letters, digits and
\* hyphens between, and after the last dot at least two letters
EMAIL_PATTERN(s) ==
    \E at \in 1..Len(s) :
      /\ s[at] = "@"
      /\ \A k \in 1..Len(s) : s[k] = "@" => k = at
      /\ at > 1
      /\ IsAlnum(s[1])
      /\ \A k \in 2..(at - 1) : IsAlnum(s[k]) \/ s[k] \in {".", "_", "%", "+", "-"}
      /\ LET domain == SubSeq(s, at + 1, Len(s))
             dots == {k \in 1..Len(domain) : domain[k] = "."}
         IN  /\ dots # {}
             /\ LET last == CHOOSE k \in dots : \A j \in dots : j <= k
                    labels == SubSeq(domain, 1, last - 1)
                IN  /\ Len(domain) - last >= 2
                    /\ \A k \in (last + 1)..Len(domain) : IsAlpha(domain[k])
                    /\ Len(labels) >= 1
                    /\ IsAlnum(labels[1])
                    /\ IsAlnum(labels[Len(labels)])
                    /\ \A k \in 1..Len(labels) :
                         \/ IsAlnum(labels[k])
                         \/ labels[k] = "-"
                         \/ /\ labels[k] = "."
                            /\ IsAlnum(labels[k - 1])
                            /\ IsAlnum(labels[k + 1])

ErrNameEmpty == "El nombre no puede estar vacio"
ErrClientDuplicate == "Ya existe un cliente con ese email"
ErrClientOtherDuplicate == "Ya existe otro cliente con ese email"

\* the error message, None when the value is valid
validate_email(email) ==
    IF email = <<>> THEN "El email es requerido"
    ELSE IF strip(email) = <<>> THEN "El email no puede estar vacio"
    ELSE IF Len(strip(email)) > 150 THEN "El email es demasiado largo (maximo 150 caracteres)"
    ELSE IF ~ EMAIL_PATTERN(strip(email)) THEN "El formato del email no es valido"
    ELSE None

validate_name(name) ==
    IF name = <<>> THEN "El nombre es requerido"
    ELSE IF strip(name) = <<>> THEN ErrNameEmpty
    ELSE IF Len(strip(name)) < 2 THEN "El nombre debe tener al menos 2 caracteres"
    ELSE IF Len(strip(name)) > 100 THEN "El nombre es demasiado largo (maximo 100 caracteres)"
    ELSE None

\* the clients the model registers
MaxClients == 2

create_client(name, email) ==
    LET args == <<name, email>>
        client == [id |-> NewId(clients), name |-> strip(name),
                   email |-> strip(email)]
    IN
    /\ UNCHANGED <<appointments, services, barbers, users, now, settings, sess, wlock>>
    /\ IF validate_name(name) # None
       THEN /\ ret' = Result("create_client", args, {}, validate_name(name))
            /\ UNCHANGED clients
       ELSE IF validate_email(email) # None
       THEN /\ ret' = Result("create_client", args, {}, validate_email(email))
            /\ UNCHANGED clients
       ELSE IF {c \in clients : c.email = strip(email)} # {}
       THEN /\ ret' = Result("create_client", args, {}, ErrClientDuplicate)
            /\ UNCHANGED clients
       ELSE /\ NewId(clients) <= MaxClients
            /\ clients' = clients \cup {client}
            /\ ret' = Result("create_client", args, {client}, None)

\* the fields are assigned one after the other on the row of the session, and
\* the get_db() scope of the caller commits when the call returns, with an
\* error or without
update_client(client_id, name, email) ==
    LET args == <<client_id, name, email>>
        found == {c \in clients : c.id = client_id}
    IN
    /\ UNCHANGED <<appointments, services, barbers, users, now, settings, sess, wlock>>
    /\ IF found = {}
       THEN /\ ret' = Result("update_client", args, {}, ErrNoClient)
            /\ UNCHANGED clients
       ELSE LET client == CHOOSE c \in found : TRUE
                others == clients \ {client}
            IN  IF \E n \in name : strip(n) = <<>>
                THEN /\ ret' = Result("update_client", args, {}, ErrNameEmpty)
                     /\ UNCHANGED clients
                ELSE LET named == IF name = {} THEN client
                                  ELSE [client EXCEPT
                                          !.name = strip(CHOOSE n \in name : TRUE)]
                     IN  IF \E e \in email : strip(e) = <<>>
                         THEN /\ ret' = Result("update_client", args, {}, "El email no puede estar vacio")
                              /\ clients' = others \cup {named}
                         ELSE IF \E e \in email :
                                   \E c \in clients : c.email = e /\ c.id # client_id
                         THEN /\ ret' = Result("update_client", args, {},
                                               ErrClientOtherDuplicate)
                              /\ clients' = others \cup {named}
                         ELSE LET updated ==
                                      IF email = {} THEN named
                                      ELSE [named EXCEPT
                                              !.email = strip(CHOOSE e \in email : TRUE)]
                              IN  /\ clients' = others \cup {updated}
                                  /\ ret' = Result("update_client", args, {updated}, None)

ClientNameInputs == {<<"A", "l">>, <<"B", " ">>, <<" ">>}
EmailInputs == {<<"a", "@", "x", ".", "i", "o">>,
                <<" ", "a", "@", "x", ".", "i", "o">>,
                <<"b", "@", "x", ".", "i", "o">>,
                <<"a", "@", "x">>,
                <<" ">>}
ClientIdInputs == 1..(MaxClients + 1)

NextClients ==
    \/ \E name \in ClientNameInputs, email \in EmailInputs :
         create_client(name, email)
    \/ \E client_id \in ClientIdInputs,
          name \in Optional(ClientNameInputs), email \in Optional(EmailInputs) :
         update_client(client_id, name, email)

SpecClients == Init /\ [][NextClients]_vars

-----------------------------------------------------------------------------
(* Authentication with rate limiting.  now is the clock datetime.now()     *)
(* reads; locked_until is a set, empty for None                            *)

MAX_FAILED_ATTEMPTS == 5
LOCKOUT_DURATION_MINUTES == 5

ErrCredentials == "Credenciales invalidas"
ErrLockedOut == "Cuenta bloqueada por " \o ToString(LOCKOUT_DURATION_MINUTES) \o " minutos"

ErrLocked(remaining) ==
    "Cuenta bloqueada. Intente en " \o ToString(remaining) \o " minutos"

ErrAttemptsLeft(attempts_left) ==
    "Credenciales invalidas. " \o ToString(attempts_left) \o " intentos restantes"

_is_locked_Never(user, t) == FALSE

_is_locked(user, t) ==
    \E locked_until \in user.locked_until : locked_until > t

_reset_failed_attempts(user) ==
    [user EXCEPT !.failed_attempts = 0, !.locked_until = {}]

_increment_failed_attempts(user, t) ==
    LET failed_attempts == user.failed_attempts + 1
    IN  [user EXCEPT
           !.failed_attempts = failed_attempts,
           !.locked_until =
               IF failed_attempts >= MAX_FAILED_ATTEMPTS
               THEN {t + LOCKOUT_DURATION_MINUTES}
               ELSE user.locked_until]

authenticate(username, password) ==
    LET args == <<username, password>>
        found == {u \in users : u.username = username /\ u.is_active = TRUE}
    IN
    /\ UNCHANGED <<appointments, services, clients, barbers, now, settings, sess, wlock>>
    /\ IF found = {}
       THEN /\ ret' = Result("authenticate", args, {}, ErrCredentials)
            /\ UNCHANGED users
       ELSE LET user == CHOOSE u \in found : TRUE
            IN  IF _is_locked(user, now)
                THEN LET locked_until == CHOOSE l \in user.locked_until : TRUE
                         remaining == (((locked_until - now) * 60) \div 60) + 1
                     IN  /\ ret' = Result("authenticate", args, {}, ErrLocked(remaining))
                         /\ UNCHANGED users
                ELSE IF verify_password(password, user.password_hash)
                THEN LET logged == _reset_failed_attempts(user)
                     IN  /\ users' = (users \ {user}) \cup {logged}
                         /\ ret' = Result("authenticate", args, {logged}, None)
                ELSE LET failed == _increment_failed_attempts(user, now)
                         attempts_left == MAX_FAILED_ATTEMPTS - failed.failed_attempts
                     IN  /\ users' = (users \ {user}) \cup {failed}
                         /\ ret' = Result("authenticate", args, {},
                                          IF attempts_left > 0
                                          THEN ErrAttemptsLeft(attempts_left)
                                          ELSE ErrLockedOut)

unlock_user(username) ==
    LET found == {u \in users : u.username = username}
    IN
    /\ UNCHANGED <<appointments, services, clients, barbers, now, settings, sess, wlock>>
    /\ IF found = {}
       THEN /\ ret' = Result("unlock_user", <<username>>, FALSE, None)
            /\ UNCHANGED users
       ELSE LET user == CHOOSE u \in found : TRUE
            IN  /\ users' = (users \ {user}) \cup {_reset_failed_attempts(user)}
                /\ ret' = Result("unlock_user", <<username>>, TRUE, None)

\* the clock moves between two calls
MaxNow == 12

Tick(minutes) ==
    /\ now + minutes <= MaxNow
    /\ now' = now + minutes
    /\ UNCHANGED <<appointments, services, clients, barbers, users, settings, ret, sess, wlock>>


NextAuth ==
    \/ \E username \in {"admin", "ghost"}, password \in {AdminPassword, "wrong-password"} :
         authenticate(username, password)
    \/ \E username \in {"admin", "ghost"} : unlock_user(username)
    \/ \E minutes \in {1, LOCKOUT_DURATION_MINUTES} : Tick(minutes)

SpecAuth == Init /\ [][NextAuth]_vars


\* rescheduling: the lifecycle on stored rows and the availability of the
\* window of a stored appointment, asked with and without an excluded id
NextReschedule ==
    \/ \E s \in BookedServices, b \in Barbers, t \in StartTimes :
         create_appointment(1, s.id, b, t, TRUE)
    \/ \E a \in appointments, st \in Statuses :
         update_appointment_status(a.id, st)
    \/ \E a \in appointments : delete_appointment(a.id)
    \/ \E a \in appointments, x \in {NoId} \cup AppointmentIds :
         CheckSlotAvailability(a.start_time, a.end_time, a.barber_id, x)

SpecReschedule == Init /\ [][NextReschedule]_vars

\* calendar sync: the switch of the calendar settings screen and the lifecycle
\* on stored rows, every remote call meeting any outcome
set_google_calendar_enabled(enabled) ==
    /\ settings' = SetSetting(settings, "google_calendar_enabled",
                              IF enabled THEN StrTrue ELSE StrFalse)
    /\ ret' = Result("set_google_calendar_enabled", <<enabled>>, {}, None)
    /\ UNCHANGED <<appointments, services, clients, barbers, users, now, sess, wlock>>

NextSync ==
    \/ \E enabled \in BOOLEAN : set_google_calendar_enabled(enabled)
    \/ \E s \in BookedServices, b \in Barbers, t \in StartTimes :
         create_appointment(1, s.id, b, t, TRUE)
    \/ \E id \in AppointmentIds, st \in StatusInputs :
         update_appointment_status(id, st)
    \/ \E a \in appointments : delete_appointment(a.id)

SpecSync == Init /\ [][NextSync]_vars

\* appointments that run past midnight: late start times, opening at 00:00,
\* and the availability of the day and of the day after
LateStartTimes == {combine(Today, 23, 45)}

NextOvernight ==
    \/ \E s \in services, b \in Barbers, t \in LateStartTimes :
         create_appointment(1, s.id, b, t, TRUE)
    \/ \E a \in appointments, st \in Statuses :
         update_appointment_status(a.id, st)
    \/ \E a \in appointments : delete_appointment(a.id)
    \/ \E e \in 1..HourSpan : set_business_hours(0, e)
    \/ \E date \in {Today, Today + 1}, d \in QueryDurations, b \in Barbers :
         GetAvailableSlots(date, d, b)

SpecOvernight == Init /\ [][NextOvernight]_vars

\* the settings provider and the slot generator: any hours 0..23 in any
\* order, a slot_duration setting, and the generated slots
AllHours == 0..MaxHour
SlotDurationInputs == {15, 20, 30, 45}

set_setting(key, value) ==
    /\ settings' = SetSetting(settings, key, value)
    /\ ret' = Result("set_setting", <<key, value>>, {}, None)
    /\ UNCHANGED <<appointments, services, clients, barbers, users, now, sess, wlock>>

\* a call of get_all_time_slots, its result kept in ret
GetAllTimeSlots ==
    /\ ret' = Result("get_all_time_slots", <<>>, get_all_time_slots(settings), None)
    /\ UNCHANGED <<appointments, services, clients, barbers, users, now, settings, sess, wlock>>

NextSlots ==
    \/ \E s \in AllHours, e \in AllHours : set_business_hours(s, e)
    \/ \E g \in SlotDurationInputs : set_setting("slot_duration", str(g))
    \/ GetAllTimeSlots

SpecSlots == Init /\ [][NextSlots]_vars

----------------------------------------------------------------------------
(* create_appointment in concurrent sessions.  Each call runs in its own    *)
(* get_db() session on the shared SQLite file: the reads of lines 201-214   *)
(* see the committed rows, db.flush() sends the INSERT and takes the        *)
(* database write lock, and the commit of get_db() publishes the row and    *)
(* releases the lock.  SELECTs hold no lock once their rows are fetched.    *)

Sessions == 1..NumSessions

IdleSession == [pc |-> "idle", args |-> <<>>, end_time |-> 0, row |-> {}]

InitConc ==
    /\ appointments = {}
    /\ services = SeedServices
    /\ clients = {FirstClient}
    /\ barbers = SeedBarbers
    /\ users = SeedUsers
    /\ now = 0
    /\ settings = [k \in {} |-> None]
    /\ ret = Result("init", <<>>, {}, None)
    /\ sess = [i \in Sessions |-> IdleSession]
    /\ wlock = 0

\* lines 201-215: resolve service and client, compute end_time, check the slot
CreateCheck(i, client_id, service_id, barber_id, start_time) ==
    LET args == <<client_id, service_id, barber_id, start_time>>
        found == {s \in services : s.id = service_id}
    IN
    /\ sess[i].pc = "idle"
    /\ UNCHANGED <<appointments, services, clients, barbers, users, now, settings, wlock>>
    /\ IF found = {}
       THEN /\ ret' = Result("create_appointment", args, {}, ErrNoService)
            /\ UNCHANGED sess
       ELSE IF client_id \notin IdsOf(clients)
       THEN /\ ret' = Result("create_appointment", args, {}, ErrNoClient)
            /\ UNCHANGED sess
       ELSE LET service == CHOOSE s \in found : TRUE
                end_time == start_time + service.duration
            IN  IF ~ check_slot_availability(appointments, start_time, end_time,
                                             barber_id, NoId)
                THEN /\ ret' = Result("create_appointment", args, {}, ErrUnavailable)
                     /\ UNCHANGED sess
                ELSE /\ sess' = [sess EXCEPT ![i] =
                                   [pc |-> "checked", args |-> args,
                                    end_time |-> end_time, row |-> {}]]
                     /\ UNCHANGED ret

\* lines 218-228: build the row, db.add and db.flush; the INSERT waits for the
\* write lock of the database file
CreateFlush(i) ==
    /\ sess[i].pc = "checked"
    /\ wlock = 0
    /\ NewId(appointments) <= MaxAppointments
    /\ wlock' = i
    /\ sess' = [sess EXCEPT ![i].pc = "flushed",
                            ![i].row = {NewAppointment(appointments,
                                           sess[i].args[1], sess[i].args[2],
                                           sess[i].args[3], sess[i].args[4],
                                           sess[i].end_time)}]
    /\ UNCHANGED <<appointments, services, clients, barbers, users, now, settings, ret>>

\* lines 231-236 and the db.commit() of get_db
CreateCommit(i) ==
    /\ sess[i].pc = "flushed"
    /\ \E google_event_id \in
           IF _is_sync_enabled(settings)
           THEN {0} \cup {a.id : a \in sess[i].row} ELSE {0} :
         LET stored == {[a EXCEPT !.google_event_id = google_event_id] :
                          a \in sess[i].row}
         IN  /\ appointments' = appointments \cup stored
             /\ ret' = Result("create_appointment", sess[i].args, stored, None)
    /\ wlock' = 0
    /\ sess' = [sess EXCEPT ![i] = IdleSession]
    /\ UNCHANGED <<services, clients, barbers, users, now, settings>>

NextConc ==
    \/ \E i \in Sessions, s \in BookedServices, b \in Barbers, t \in StartTimes :
         CreateCheck(i, 1, s.id, b, t)
    \/ \E i \in Sessions : CreateFlush(i)
    \/ \E i \in Sessions : CreateCommit(i)

SpecConc == InitConc /\ [][NextConc]_vars

----------------------------------------------------------------------------
(* Claims of the appointment lifecycle, checked under Spec *)

NonCancelled(a) == a.status # "cancelled"

\* the half-open windows [s1, e1) and [s2, e2) intersect
Overlap(s1, e1, s2, e2) == s1 < e2 /\ s2 < e1

\* C1: no two stored non-cancelled appointments of the same barber have
\* overlapping [start_time, end_time) intervals
C1_NoDoubleBooking ==
    \A a \in appointments : \A b \in appointments :
        (a # b /\ a.barber_id = b.barber_id /\ NonCancelled(a) /\ NonCancelled(b))
            => ~ Overlap(a.start_time, a.end_time, b.start_time, b.end_time)

\* the duration of the stored service with this id (0 when there is none)
DurationOf(service_id) ==
    IF \E s \in services : s.id = service_id
    THEN (CHOOSE s \in services : s.id = service_id).duration ELSE 0

\* a stored non-cancelled appointment of the barber intersects [start, end)
Blocked(appts, barber_id, start, end) ==
    \E A \in appts : /\ A.barber_id = barber_id
                     /\ NonCancelled(A)
                     /\ A.start_time < end
                     /\ A.end_time > start

\* C2: a create_appointment call for a stored client and service whose window
\* [start, start + duration) intersects a stored non-cancelled appointment of
\* the same barber returns no appointment and the slot-unavailable error, and
\* stores nothing
C2_OverlapRejected ==
    [][(/\ ret'.op = "create_appointment"
        /\ ret'.args[1] \in IdsOf(clients)
        /\ DurationOf(ret'.args[2]) > 0
        /\ Blocked(appointments, ret'.args[3], ret'.args[4],
                   ret'.args[4] + DurationOf(ret'.args[2])))
       => (/\ ret'.val = {}
           /\ ret'.err = ErrUnavailable
           /\ appointments' = appointments)]_vars

\* C2 witness: a request was rejected as unavailable while an appointment of
\* its barber intersects its window
C2_Witness ==
    /\ ret.op = "create_appointment"
    /\ ret.err = ErrUnavailable
    /\ Blocked(appointments, ret.args[3], ret.args[4],
               ret.args[4] + DurationOf(ret.args[2]))

\* the status changes of the lifecycle state machine
AllowedTransitions == {<<"pending", "confirmed">>, <<"pending", "cancelled">>,
                       <<"confirmed", "cancelled">>}

\* C5: every status change of a stored appointment is pending -> confirmed,
\* pending -> cancelled or confirmed -> cancelled
C5_StatusTransitions ==
    [][\A a \in appointments : \A b \in appointments' :
          (a.id = b.id /\ a.status # b.status)
              => <<a.status, b.status>> \in AllowedTransitions]_vars

\* C13: a create_appointment call whose service_id or client_id matches no
\* stored row returns no appointment and a not-found error and leaves the
\* stored appointments unchanged, whatever the other arguments
C13_NotFound ==
    [][(/\ ret'.op = "create_appointment"
        /\ \/ ret'.args[2] \notin {s.id : s \in services}
           \/ ret'.args[1] \notin IdsOf(clients))
       => (/\ ret'.val = {}
           /\ ret'.err \in {ErrNoService, ErrNoClient}
           /\ appointments' = appointments)]_vars

\* C13 witness: a call for a stored service and an unknown client, in a window
\* that is free, was answered with the client not-found error
C13_Witness ==
    /\ ret.op = "create_appointment"
    /\ ret.err = ErrNoClient
    /\ ret.args[1] \notin IdsOf(clients)
    /\ appointments # {}
    /\ ~ Blocked(appointments, ret.args[3], ret.args[4],
                 ret.args[4] + DurationOf(ret.args[2]))

\* C16: delete_appointment(id) returns (false, not-found) exactly when no
\* appointment with that id is stored, and then changes nothing; after a
\* successful delete the appointment is absent, so deleting it again returns
\* not-found
C16_DeleteNotFound ==
    [][(ret'.op = "delete_appointment")
       => /\ (ret'.args[1] \notin {a.id : a \in appointments})
                <=> (ret'.val = FALSE /\ ret'.err = ErrNoAppointment)
          /\ (ret'.args[1] \notin {a.id : a \in appointments})
                => (appointments' = appointments)
          /\ (ret'.val = TRUE)
                => /\ ret'.err = None
                   /\ appointments' =
                        {a \in appointments : a.id # ret'.args[1]}
                   /\ ret'.args[1] \notin {a.id : a \in appointments'}]_vars

\* C16 witness: a delete was answered not-found while other appointments are
\* stored
C16_Witness ==
    /\ ret.op = "delete_appointment"
    /\ ret.val = FALSE
    /\ ret.err = ErrNoAppointment
    /\ appointments # {}

----------------------------------------------------------------------------
(* Claim of the created row, checked under SpecCatalogue *)

\* C14: a create_appointment call that succeeds adds exactly one appointment,
\* with a new id, status pending, the given client, service, barber and
\* start_time, and end_time = start_time + the duration the service has at
\* that moment, so end_time > start_time; the rows stored before are unchanged
C14_CreatedRow ==
    [][(ret'.op = "create_appointment" /\ ret'.err = None)
       => \E a \in ret'.val :
             /\ ret'.val = {a}
             /\ a.id \notin {x.id : x \in appointments}
             /\ appointments' = appointments \cup {a}
             /\ Cardinality(appointments') = Cardinality(appointments) + 1
             /\ a.status = "pending"
             /\ a.client_id = ret'.args[1]
             /\ a.service_id = ret'.args[2]
             /\ a.barber_id = ret'.args[3]
             /\ a.start_time = ret'.args[4]
             /\ a.end_time = a.start_time + DurationOf(ret'.args[2])
             /\ a.end_time > a.start_time]_vars

\* C14 witness: an appointment was created next to a stored one for a service
\* whose duration had been changed
C14_Witness ==
    /\ ret.op = "create_appointment"
    /\ ret.err = None
    /\ Cardinality(appointments) = 2
    /\ \E a \in ret.val :
          /\ a.end_time - a.start_time = DurationOf(a.service_id)
          /\ \A s \in SeedServices : s.id = a.service_id => s.duration # DurationOf(s.id)

\* C21: in every state reached by create_appointment and update_service calls
\* each stored appointment has end_time = start_time + the current duration
\* of the service it references
C21_EndMatchesDuration ==
    \A a \in appointments : a.end_time = a.start_time + DurationOf(a.service_id)

----------------------------------------------------------------------------
(* Claims of the availability engine, checked under SpecAvail *)

\* the rows of one barber
OfBarber(appts, barber_id) == {a \in appts : a.barber_id = barber_id}

\* C3: appointments of other barbers never count: a create_appointment call for
\* a stored client and service succeeds whenever no non-cancelled appointment
\* of its own barber intersects the window, find_overlapping returns exactly
\* the intersecting non-cancelled appointments of the barber asked for, and
\* get_available_slots returns what it returns on that barber's rows alone
C3_BarbersIndependent ==
    [][/\ (/\ ret'.op = "create_appointment"
           /\ ret'.args[1] \in IdsOf(clients)
           /\ DurationOf(ret'.args[2]) > 0
           /\ ~ Blocked(OfBarber(appointments, ret'.args[3]), ret'.args[3],
                        ret'.args[4], ret'.args[4] + DurationOf(ret'.args[2])))
          => (ret'.err = None /\ ret'.val # {} /\ ret'.val \subseteq appointments')
       /\ \A b \in Barbers, t \in StartTimes, s \in BookedServices :
             find_overlapping(appointments, t, t + s.duration, b, NoId) =
                 {a \in OfBarber(appointments, b) :
                     /\ NonCancelled(a)
                     /\ Overlap(a.start_time, a.end_time, t, t + s.duration)}
       /\ (ret'.op = "get_available_slots")
          => (ret'.val = get_available_slots(OfBarber(appointments, ret'.args[3]),
                                             settings, ret'.args[1], ret'.args[2],
                                             ret'.args[3]))]_vars

\* C3 witness: two barbers hold non-cancelled appointments with the same
\* window, the second just created, and a third query finds none for a barber
C3_Witness ==
    /\ ret.op = "create_appointment"
    /\ ret.err = None
    /\ \E a \in ret.val : \E b \in appointments :
          /\ a.barber_id # b.barber_id
          /\ NonCancelled(b)
          /\ a.start_time = b.start_time
          /\ a.end_time = b.end_time

\* the slot start of entry i of a get_available_slots result
SlotStart(target_date, slots, i) == combine(target_date, slots[i][1], slots[i][2])

\* C6: get_available_slots returns one entry per generated slot, in slot order,
\* and the entry of slot start s is available exactly when s + d is not after
\* end_hour:00 and no non-cancelled appointment of the barber has
\* start < s + d and end > s
C6_SlotAvailability ==
    (ret.op = "get_available_slots") =>
        LET date == ret.args[1]
            d == ret.args[2]
            b == ret.args[3]
            slots == get_all_time_slots(settings)
            close == combine(date, get_business_hours(settings)[2], 0)
        IN  /\ Len(ret.val) = Len(slots)
            /\ \A i \in 1..Len(slots) :
                  /\ ret.val[i][1] = slots[i][1]
                  /\ ret.val[i][2] = slots[i][2]
                  /\ ret.val[i][3] =
                        (/\ SlotStart(date, slots, i) + d <= close
                         /\ ~ Blocked(appointments, b, SlotStart(date, slots, i),
                                      SlotStart(date, slots, i) + d))

\* a non-cancelled appointment of the barber touches the window [start, end)
\* at one of its ends, and no other appointment of the barber intersects it
TouchingOnly(appts, barber_id, start, end) ==
    \E A \in appts :
        /\ A.barber_id = barber_id
        /\ NonCancelled(A)
        /\ (A.end_time = start \/ A.start_time = end)
        /\ \A B \in appts \ {A} :
              (B.barber_id = barber_id /\ NonCancelled(B))
                  => ~ Overlap(B.start_time, B.end_time, start, end)

\* C7: a window that only touches a stored non-cancelled appointment of the
\* barber (it starts at the appointment's end or ends at its start) is reported
\* available by check_slot_availability, is marked available by
\* get_available_slots when it ends by closing time, and is accepted by
\* create_appointment
C7_TouchingIsFree ==
    [][/\ (/\ ret'.op = "check_slot_availability"
           /\ ret'.args[4] = NoId
           /\ TouchingOnly(appointments, ret'.args[3], ret'.args[1], ret'.args[2]))
          => (ret'.val = TRUE)
       /\ (ret'.op = "get_available_slots")
          => \A i \in 1..Len(ret'.val) :
                LET s == combine(ret'.args[1], ret'.val[i][1], ret'.val[i][2])
                IN  (/\ s + ret'.args[2] <=
                           combine(ret'.args[1], get_business_hours(settings)[2], 0)
                     /\ TouchingOnly(appointments, ret'.args[3], s, s + ret'.args[2]))
                    => (ret'.val[i][3] = TRUE)
       /\ (/\ ret'.op = "create_appointment"
           /\ ret'.args[1] \in IdsOf(clients)
           /\ DurationOf(ret'.args[2]) > 0
           /\ TouchingOnly(appointments, ret'.args[3], ret'.args[4],
                           ret'.args[4] + DurationOf(ret'.args[2])))
          => (/\ ret'.err = None
              /\ ret'.val # {}
              /\ appointments' = appointments \cup ret'.val)]_vars

\* C7 witness: an appointment was just created in a window that touches
\* another non-cancelled appointment of the same barber
C7_Witness ==
    /\ ret.op = "create_appointment"
    /\ ret.err = None
    /\ \E a \in ret.val :
          TouchingOnly(appointments \ {a}, a.barber_id, a.start_time, a.end_time)

\* the business-hours span in minutes
SpanMinutes(st) ==
    (get_business_hours(st)[2] - get_business_hours(st)[1]) * MinutesPerHour

\* C8 as stated: a service_duration greater than or equal to the
\* business-hours span makes every slot unavailable
C8_SpanOrLonger ==
    (ret.op = "get_available_slots" /\ ret.args[2] >= SpanMinutes(settings))
        => \A i \in 1..Len(ret.val) : ret.val[i][3] = FALSE

\* C8 amended: a service_duration strictly greater than the business-hours
\* span makes every slot unavailable
C8_LongerThanSpan ==
    (ret.op = "get_available_slots" /\ ret.args[2] > SpanMinutes(settings))
        => \A i \in 1..Len(ret.val) : ret.val[i][3] = FALSE

\* C8 witness: slots were generated for a duration longer than the span on a
\* day on which the barber has no appointment
C8_Witness ==
    /\ ret.op = "get_available_slots"
    /\ ret.args[2] > SpanMinutes(settings)
    /\ Len(ret.val) > 0
    /\ OfBarber(appointments, ret.args[3]) = {}

----------------------------------------------------------------------------
(* Claim of the daily schedule, checked under SpecAgenda *)

\* the non-cancelled appointments of the barber that start on the date
DayAppointments(date, barber_id) ==
    {a \in appointments : /\ NonCancelled(a)
                          /\ a.barber_id = barber_id
                          /\ a.start_time \div MinutesPerDay = date}

\* the start times of the generated slots of the date
SlotTimes(date) ==
    {SlotStart(date, get_all_time_slots(settings), i) :
        i \in 1..Len(get_all_time_slots(settings))}

\* the positions of the items of a schedule that carry this time
ItemsAt(schedule, t) == {i \in 1..Len(schedule) : schedule[i].time = t}

\* the appointments do not overlap and start on generated slot times
OnSlotsApart(date, barber_id) ==
    /\ \A a \in DayAppointments(date, barber_id) :
          /\ a.start_time \in SlotTimes(date)
          /\ \A b \in DayAppointments(date, barber_id) \ {a} :
                ~ Overlap(a.start_time, a.end_time, b.start_time, b.end_time)

\* the items come in increasing time order, one appointment item at each
\* appointment's start slot, none at a later slot inside an appointment, one
\* free item at every other generated slot
ScheduleShape ==
    LET date == ret.args[1]
        appts == DayAppointments(date, ret.args[2])
        Inside(t) == \E a \in appts : a.start_time < t /\ t < a.end_time
    IN  /\ \A i \in 1..(Len(ret.val) - 1) : ret.val[i].time < ret.val[i + 1].time
        /\ \A i \in 1..Len(ret.val) : ret.val[i].time \in SlotTimes(date)
        /\ \A a \in appts :
              /\ Cardinality(ItemsAt(ret.val, a.start_time)) = 1
              /\ \A i \in ItemsAt(ret.val, a.start_time) :
                    ret.val[i].type = "appointment" /\ ret.val[i].id = a.id
        /\ \A t \in SlotTimes(date) :
              IF Inside(t) THEN ItemsAt(ret.val, t) = {}
              ELSE IF t \in {a.start_time : a \in appts} THEN TRUE
              ELSE /\ Cardinality(ItemsAt(ret.val, t)) = 1
                   /\ \A i \in ItemsAt(ret.val, t) : ret.val[i].type = "free"

\* C17 as stated: for a barber and date whose non-cancelled appointments do
\* not overlap and start on generated slot times the schedule has that shape,
\* and a day with no appointments yields (e - s) * 4 free items
C17_DailySchedule ==
    (ret.op = "get_daily_schedule" /\ OnSlotsApart(ret.args[1], ret.args[2]))
        => /\ ScheduleShape
           /\ (DayAppointments(ret.args[1], ret.args[2]) = {})
                 => Len(ret.val) = (get_business_hours(settings)[2]
                                      - get_business_hours(settings)[1]) * 4

\* C17 amended: the same shape, and a day with no appointments yields
\* (e - s) * 4 free items when s <= e and no item when e < s
C17_DailyScheduleOpenHours ==
    (ret.op = "get_daily_schedule" /\ OnSlotsApart(ret.args[1], ret.args[2]))
        => /\ ScheduleShape
           /\ (DayAppointments(ret.args[1], ret.args[2]) = {})
                 => LET bh == get_business_hours(settings)
                    IN  Len(ret.val) = IF bh[1] <= bh[2] THEN (bh[2] - bh[1]) * 4
                                       ELSE 0

\* C17 witness: the schedule of a day with a 30-minute appointment on a slot,
\* the slot after it generated too and left out of the schedule
C17_Witness ==
    /\ ret.op = "get_daily_schedule"
    /\ OnSlotsApart(ret.args[1], ret.args[2])
    /\ \E a \in DayAppointments(ret.args[1], ret.args[2]) :
          /\ a.end_time - a.start_time = 30
          /\ a.start_time + SLOT_INTERVAL_MINUTES \in SlotTimes(ret.args[1])
          /\ ItemsAt(ret.val, a.start_time + SLOT_INTERVAL_MINUTES) = {}
          /\ Len(ret.val) = Len(get_all_time_slots(settings)) - 1

----------------------------------------------------------------------------
(* Claims of the slot generator, checked under SpecSlots *)

\* the configured slot granularity: the slot_duration setting
SlotDuration(st) == int(get_setting(st, "slot_duration", None))

\* slot i of the day that opens at hour s with per slots of g minutes an hour
ExpectedSlot(s, per, g, i) == <<s + ((i - 1) \div per), ((i - 1) % per) * g>>

\* C9: for business hours s < e and a slot_duration setting g that divides 60
\* the generator returns (e - s) * (60 div g) slots, from s:00 in steps of g
\* minutes
C9_SlotCount ==
    (ret.op = "get_all_time_slots") =>
        LET s == get_business_hours(settings)[1]
            e == get_business_hours(settings)[2]
            g == SlotDuration(settings)
            per == MinutesPerHour \div g
        IN  (s < e /\ MinutesPerHour % g = 0)
                => /\ Len(ret.val) = (e - s) * per
                   /\ \A i \in 1..Len(ret.val) : ret.val[i] = ExpectedSlot(s, per, g, i)

\* <<h1, m1>> is earlier than <<h2, m2>>
Earlier(p, q) == p[1] < q[1] \/ (p[1] = q[1] /\ p[2] < q[2])

\* C10: with 15-minute slots and business hours s < e, get_all_time_slots
\* returns (e - s) * 4 strictly increasing pairs from <<s, 0>> to <<e - 1, 45>>;
\* with business hours never set these are the 32 slots <<12, 0>> .. <<19, 45>>
C10_QuarterHourSlots ==
    (ret.op = "get_all_time_slots" /\ SlotDuration(settings) = 15) =>
        LET s == get_business_hours(settings)[1]
            e == get_business_hours(settings)[2]
        IN  /\ (s < e) =>
                  /\ Len(ret.val) = (e - s) * 4
                  /\ ret.val[1] = <<s, 0>>
                  /\ ret.val[Len(ret.val)] = <<e - 1, 45>>
                  /\ \A i \in 1..(Len(ret.val) - 1) : Earlier(ret.val[i], ret.val[i + 1])
            /\ ("business_hours_start" \notin DOMAIN settings
                  /\ "business_hours_end" \notin DOMAIN settings) =>
                  /\ Len(ret.val) = 32
                  /\ ret.val[1] = <<12, 0>>
                  /\ ret.val[32] = <<19, 45>>

\* C10 witness: slots were generated for stored business hours s < e
C10_Witness ==
    /\ ret.op = "get_all_time_slots"
    /\ SlotDuration(settings) = 15
    /\ "business_hours_start" \in DOMAIN settings
    /\ get_business_hours(settings)[1] < get_business_hours(settings)[2]
    /\ Len(ret.val) > 4

----------------------------------------------------------------------------
(* Claim of the self-exclusion, checked under SpecReschedule *)

\* the stored non-cancelled appointments with exactly this window and barber
ExactlyAt(appts, start, end, barber_id) ==
    {X \in appts : /\ NonCancelled(X)
                   /\ X.start_time = start
                   /\ X.end_time = end
                   /\ X.barber_id = barber_id}

\* C12: check_slot_availability for the exact window and barber of a stored
\* non-cancelled appointment X returns false without an exclusion, and with
\* exclude_appointment_id = X.id returns true exactly when no other
\* non-cancelled appointment of the barber intersects the window
C12_SelfExclusion ==
    (ret.op = "check_slot_availability") =>
        \A X \in ExactlyAt(appointments, ret.args[1], ret.args[2], ret.args[3]) :
            /\ (ret.args[4] = NoId) => (ret.val = FALSE)
            /\ (ret.args[4] = X.id) =>
                  (ret.val = ~ Blocked(appointments \ {X}, ret.args[3],
                                       ret.args[1], ret.args[2]))

\* C12 witness: the window of a stored non-cancelled appointment was found
\* available with that appointment excluded, another appointment
\* being stored too
C12_Witness ==
    /\ ret.op = "check_slot_availability"
    /\ ret.val = TRUE
    /\ \E X \in ExactlyAt(appointments, ret.args[1], ret.args[2], ret.args[3]) :
          /\ ret.args[4] = X.id
          /\ appointments # {X}

\* C12 witness of the other case: with X excluded the window is still taken
\* by another non-cancelled appointment of the barber
C12_WitnessOther ==
    /\ ret.op = "check_slot_availability"
    /\ ret.val = FALSE
    /\ \E X \in ExactlyAt(appointments, ret.args[1], ret.args[2], ret.args[3]) :
          ret.args[4] = X.id

----------------------------------------------------------------------------
(* Claims of the calendar sync, checked under SpecSync *)

\* rows without their remote event ids
Strip(appts) == {[a EXCEPT !.google_event_id = NoId] : a \in appts}

\* C11: a call that reached the remote calendar ends as it ends with sync
\* disabled, whatever the remote outcome: it raises nothing, create_appointment
\* returns the new pending row and stores it, update_appointment_status
\* returns the row with its new status and stores it, delete_appointment
\* returns true and removes the row; stored rows differ at most in their
\* remote event id
C11_SyncBestEffort ==
    [][(ret'.op \in {"create_appointment", "update_appointment_status",
                     "delete_appointment"} /\ ret'.remote # NoRemote)
       => /\ ret'.exc = None
          /\ ret'.err = None
          /\ (ret'.op = "create_appointment")
                => /\ Strip(ret'.val) =
                        {NewAppointment(appointments, ret'.args[1], ret'.args[2],
                                        ret'.args[3], ret'.args[4],
                                        ret'.args[4] + DurationOf(ret'.args[2]))}
                   /\ appointments' = appointments \cup ret'.val
          /\ (ret'.op = "update_appointment_status")
                => /\ ret'.val = {[a EXCEPT !.status = ret'.args[2]] :
                                    a \in AppointmentById(appointments, ret'.args[1])}
                   /\ appointments' =
                        (appointments \ AppointmentById(appointments, ret'.args[1]))
                            \cup ret'.val
          /\ (ret'.op = "delete_appointment")
                => /\ ret'.val = TRUE
                   /\ appointments' =
                        appointments \ AppointmentById(appointments, ret'.args[1])]_vars

\* C15: update_appointment_status with a new_status outside pending,
\* confirmed, cancelled returns the invalid-status error whether or not the id
\* is stored, and with a valid status and an id that is not stored returns the
\* not-found error; either way no stored appointment changes and no remote
\* calendar call is made
C15_UpdateRejected ==
    [][(ret'.op = "update_appointment_status")
       => /\ (ret'.args[2] \notin {"pending", "confirmed", "cancelled"})
                => (/\ ret'.val = {}
                    /\ ret'.err = ErrBadStatus
                    /\ appointments' = appointments
                    /\ ret'.remote = NoRemote)
          /\ (/\ ret'.args[2] \in {"pending", "confirmed", "cancelled"}
              /\ ret'.args[1] \notin {a.id : a \in appointments})
                => (/\ ret'.val = {}
                    /\ ret'.err = ErrNoAppointment
                    /\ appointments' = appointments
                    /\ ret'.remote = NoRemote)]_vars

\* C15 witness: with sync enabled, an invalid status was refused for a stored
\* appointment that has a remote event
C15_Witness ==
    /\ ret.op = "update_appointment_status"
    /\ ret.err = ErrBadStatus
    /\ _is_sync_enabled(settings)
    /\ \E a \in appointments : a.id = ret.args[1] /\ a.google_event_id # NoId

\* C15 witness of the not-found case
C15_WitnessNotFound ==
    /\ ret.op = "update_appointment_status"
    /\ ret.err = ErrNoAppointment
    /\ _is_sync_enabled(settings)
    /\ appointments # {}

----------------------------------------------------------------------------
(* Claims of the barber management, checked under SpecBarbers *)

\* the appointments of the barber dated today or later that are pending or
\* confirmed
FutureBookings(barber_id, today) ==
    {a \in appointments : /\ a.barber_id = barber_id
                          /\ a.start_time \div MinutesPerDay >= today
                          /\ a.status \in {"pending", "confirmed"}}

\* C18: toggle_active applied to an active barber who has an appointment dated
\* today or later with status pending or confirmed returns an error and leaves
\* the barber active
C18_BookedBarberStaysActive ==
    [][(/\ ret'.op = "toggle_active"
        /\ \E b \in barbers : b.id = ret'.args[1] /\ b.is_active
        /\ FutureBookings(ret'.args[1], ret'.args[2]) # {})
       => (/\ ret'.err # None
           /\ ret'.val = {}
           /\ barbers' = barbers)]_vars

\* C19: while a barber is active, create_barber, update_barber and
\* toggle_active leave a barber active; toggle_active on the only active
\* barber returns the last-active-barber error and changes nothing
C19_ActiveBarberRemains ==
    [][(\E b \in barbers : b.is_active)
       => /\ \E b \in barbers' : b.is_active
          /\ (/\ ret'.op = "toggle_active"
              /\ {b.id : b \in {x \in barbers : x.is_active}} = {ret'.args[1]})
                => (/\ ret'.err = ErrLastActive
                    /\ ret'.val = {}
                    /\ barbers' = barbers)]_vars

\* C19 witness: with a second barber stored and inactive, deactivating the
\* only active barber was refused
C19_Witness ==
    /\ ret.op = "toggle_active"
    /\ ret.err = ErrLastActive
    /\ Cardinality(barbers) > 1
    /\ Cardinality({b \in barbers : b.is_active}) = 1
    /\ \E b \in barbers : b.is_active /\ b.id = ret.args[1]

----------------------------------------------------------------------------
(* Claim of the referential integrity, checked under SpecIntegrity *)

\* C22: every stored appointment's client_id and service_id refer to stored
\* rows; delete_client and delete_service return an error and delete nothing
\* while an appointment of any status references the entity, and
\* delete_appointment removes no client and no service
C22_ReferencesKept ==
    [][/\ \A a \in appointments' : /\ a.client_id \in IdsOf(clients')
                                   /\ a.service_id \in IdsOf(services')
       /\ (/\ ret'.op = "delete_client"
           /\ \E a \in appointments : a.client_id = ret'.args[1])
             => (/\ ret'.val = FALSE
                 /\ ret'.err # None
                 /\ clients' = clients
                 /\ appointments' = appointments)
       /\ (/\ ret'.op = "delete_service"
           /\ \E a \in appointments : a.service_id = ret'.args[1])
             => (/\ ret'.val = FALSE
                 /\ ret'.err # None
                 /\ services' = services
                 /\ appointments' = appointments)
       /\ (ret'.op = "delete_appointment")
             => (clients' = clients /\ services' = services)]_vars

\* C22 witness: the deletion of a client was refused while the only
\* appointment that references the client is cancelled
C22_Witness ==
    /\ ret.op = "delete_client"
    /\ ret.val = FALSE
    /\ ret.err = ErrClientHasAppointments
    /\ \E a \in appointments : a.client_id = ret.args[1]
    /\ \A a \in appointments : a.client_id = ret.args[1] => a.status = "cancelled"

----------------------------------------------------------------------------
(* Claim of the reports, checked under SpecReports *)

\* the stored appointments without the cancelled ones
Uncancelled == {a \in appointments : a.status # "cancelled"}

\* the income a barber-performance report gives for a name
IncomeOf(report, name) ==
    IF \E r \in report : r.name = name
    THEN (CHOOSE r \in report : r.name = name).income ELSE 0

\* the income figures of get_stats_by_period and get_stats_by_status are what
\* they are without the cancelled appointments
C20_PeriodAndStatus ==
    /\ (ret.op = "get_stats_by_period")
          => ret.val.total_income =
                get_stats_by_period(Uncancelled, services,
                                    ret.args[1], ret.args[2]).total_income
    /\ (ret.op = "get_stats_by_status")
          => LET clean == get_stats_by_status(Uncancelled, services,
                                              ret.args[1], ret.args[2])
             IN  /\ ret.val.confirmed.income = clean.confirmed.income
                 /\ ret.val.pending.income = clean.pending.income
                 /\ ret.val.cancelled.income = 0
                 /\ ret.val.total.income = clean.total.income

\* C20: in every aggregation of the reports a cancelled appointment adds 0 to
\* every income figure: each figure of get_stats_by_period, get_stats_by_status
\* and get_barber_performance, whatever its status filter, is what it is
\* without the cancelled appointments
C20_CancelledNoIncome ==
    /\ C20_PeriodAndStatus
    /\ (ret.op = "get_barber_performance")
          => \A b \in barbers :
                IncomeOf(ret.val, b.name) =
                    IncomeOf(get_barber_performance(Uncancelled, services, barbers,
                                                    ret.args[1], ret.args[2],
                                                    ret.args[3]), b.name)

----------------------------------------------------------------------------
(* Claim of the concurrency model, checked under SpecConc *)

\* C4: the overlap check and the insert of a create_appointment call are one
\* atomic unit, so of the calls of interleaved sessions for one barber with
\* intersecting windows at most one ends with a stored appointment
C4_AtMostOneStored ==
    \A a \in appointments : \A b \in appointments \ {a} :
        (a.barber_id = b.barber_id)
            => (a.end_time <= b.start_time \/ b.end_time <= a.start_time)

-----------------------------------------------------------------------------
(* Claims of the authentication, checked under SpecAuth *)

ActiveUsers(username) ==
    {u \in users : u.username = username /\ u.is_active}

LockedAt(user, t) == \E locked_until \in user.locked_until : t < locked_until

C23_WitnessReset ==
    /\ ret.op = "authenticate"
    /\ ret.val # {}
    /\ now > 0
    /\ \A u \in ret.val : u.failed_attempts = 0 /\ u.locked_until = {}

\* C30: whatever authenticate and unlock_user calls are made and however the
\* clock advances between them, failed_attempts of every user stays within
\* 0..5.
C30_FailedAttemptsBounded ==
    \A u \in users : u.failed_attempts \in 0..MAX_FAILED_ATTEMPTS

-----------------------------------------------------------------------------
(* Claim of the client management, checked under SpecClients *)

\* C24: after any sequence of create_client and update_client calls no two
\* stored clients have the same stored email.
C24_UniqueEmails ==
    \A c1 \in clients, c2 \in clients : c1.email = c2.email => c1.id = c2.id

-----------------------------------------------------------------------------
(* Claim of the overnight appointments, checked under SpecOvernight *)

\* C25: in every state, for the day and the day after, every stored service
\* and every barber, a slot that get_available_slots marks available for the
\* service's duration passes the check on which create_appointment rejects a
\* booking as unavailable (check_slot_availability of the window of the slot).
C25_AvailableIsBookable ==
    \A date \in {Today, Today + 1}, service \in services, b \in Barbers :
        LET slots == get_available_slots(appointments, settings, date,
                                         service.duration, b)
        IN  \A i \in 1..Len(slots) :
              slots[i][3] =>
                  check_slot_availability(
                      appointments,
                      combine(date, slots[i][1], slots[i][2]),
                      combine(date, slots[i][1], slots[i][2]) + service.duration,
                      b, NoId)

-----------------------------------------------------------------------------
(* Claim of the business hours of a booking, checked under Spec *)

\* the day of a datetime
DateOf(t) == t \div MinutesPerDay

\* C26: the appointment create_appointment has just stored starts at or after
\* the opening hour and ends at or before the closing hour of its day, with
\* the business hours configured at that moment.
C26_StoredWithinHours ==
    (ret.op = "create_appointment" /\ ret.err = None) =>
        \A a \in ret.val :
            LET bh == get_business_hours(settings)
            IN  /\ a \in appointments
                /\ a.start_time >= combine(DateOf(a.start_time), bh[1], 0)
                /\ a.end_time <= combine(DateOf(a.start_time), bh[2], 0)

-----------------------------------------------------------------------------
(* Claim of the cancelled appointments, checked under SpecCancel *)

\* a cancelled appointment of the barber intersects [start, end)
CancelledIn(appts, barber_id, start, end) ==
    \E X \in appts : /\ X.status = "cancelled"
                     /\ X.barber_id = barber_id
                     /\ X.start_time < end
                     /\ X.end_time > start

\* C27: a cancelled appointment blocks nothing.  get_available_slots marks a
\* slot available exactly when it ends by closing time and no non-cancelled
\* appointment of the barber intersects it; check_slot_availability answers
\* true exactly when no non-cancelled appointment of the barber intersects the
\* window; create_appointment for a stored client and service succeeds when no
\* non-cancelled appointment of the barber intersects the window; and no
\* appointment item of get_daily_schedule is a cancelled appointment.
C27_CancelledFrees ==
    [][/\ (ret'.op = "get_available_slots") =>
            LET slots == get_all_time_slots(settings)
                close == combine(ret'.args[1], get_business_hours(settings)[2], 0)
            IN  /\ Len(ret'.val) = Len(slots)
                /\ \A i \in 1..Len(slots) :
                     LET s == SlotStart(ret'.args[1], slots, i)
                     IN  ret'.val[i][3] =
                           (/\ s + ret'.args[2] <= close
                            /\ ~ Blocked(appointments, ret'.args[3],
                                         s, s + ret'.args[2]))
       /\ (ret'.op = "check_slot_availability") =>
            ret'.val = ~ Blocked(appointments, ret'.args[3],
                                 ret'.args[1], ret'.args[2])
       /\ (/\ ret'.op = "create_appointment"
           /\ ret'.args[1] \in IdsOf(clients)
           /\ DurationOf(ret'.args[2]) > 0
           /\ ~ Blocked(appointments, ret'.args[3], ret'.args[4],
                        ret'.args[4] + DurationOf(ret'.args[2]))) =>
            /\ ret'.err = None
            /\ ret'.val # {}
            /\ appointments' = appointments \cup ret'.val
            /\ \A a \in ret'.val : /\ a \notin appointments
                                   /\ a.barber_id = ret'.args[3]
                                   /\ a.start_time = ret'.args[4]
       /\ (ret'.op = "get_daily_schedule") =>
            \A i \in DOMAIN ret'.val :
                ret'.val[i].type = "appointment" =>
                    \E a \in appointments : /\ a.id = ret'.val[i].id
                                            /\ NonCancelled(a)
      ]_vars

\* C27 witness: a booking has just been stored over a cancelled appointment of
\* its barber
C27_Witness ==
    /\ ret.op = "create_appointment"
    /\ ret.err = None
    /\ \A a \in ret.val :
          CancelledIn(appointments, a.barber_id, a.start_time, a.end_time)

\* C27 witness: a slot over a cancelled appointment of the barber is listed
\* available
C27_WitnessSlot ==
    /\ ret.op = "get_available_slots"
    /\ \E i \in DOMAIN ret.val :
          /\ ret.val[i][3]
          /\ CancelledIn(appointments, ret.args[3],
                         combine(ret.args[1], ret.val[i][1], ret.val[i][2]),
                         combine(ret.args[1], ret.val[i][1], ret.val[i][2])
                             + ret.args[2])

\* C27 witness: the schedule of a barber whose only appointment of the day is
\* cancelled shows its slot free
C27_WitnessSchedule ==
    /\ ret.op = "get_daily_schedule"
    /\ \E X \in appointments :
          /\ X.status = "cancelled"
          /\ X.barber_id = ret.args[2]
          /\ \E i \in DOMAIN ret.val :
                ret.val[i].time = X.start_time /\ ret.val[i].type = "free"

-----------------------------------------------------------------------------
(* Claim of the schedule of the whole shop, checked under SpecShopAgenda *)

\* C28: in the result of get_daily_schedule, for any barber filter and with
\* barber_id left out too, every non-cancelled appointment of the date that
\* the filter selects and that starts on a generated slot time appears exactly
\* once as an appointment item.
C28_EveryBookingShown ==
    (ret.op = "get_daily_schedule") =>
        \A a \in get_appointments_by_date(appointments, ret.args[1], ret.args[2]) :
            a.start_time \in SlotTimes(ret.args[1]) =>
                Cardinality({i \in DOMAIN ret.val :
                                /\ ret.val[i].type = "appointment"
                                /\ ret.val[i].id = a.id}) = 1

-----------------------------------------------------------------------------
(* Claim of the barber of an appointment, checked under Spec *)

\* C29: the barber_id of every stored appointment is the id of a stored
\* barber.
C29_BarberStored ==
    \A a \in appointments : a.barber_id \in IdsOf(barbers)

====
